---- MODULE Spec2Model ----
(***************************************************************************)
(* Model of the batch dispatcher of the GenAI command line client          *)
(* (cli/commands/batch.py) and of the transport client it calls            *)
(* (cli/client.py).                                                        *)
(*                                                                         *)
(* One run of `genai batch process` is modelled: the main thread executes  *)
(* process() and process_prompts_concurrent(), the ThreadPoolExecutor      *)
(* workers execute process_single_prompt().  The environment (input file,  *)
(* output directory, backend behaviour per request, result-file writes)    *)
(* is chosen nondeterministically.  Python dicts are records whose DOMAIN  *)
(* is the set of keys present; dict.get is Get.                            *)
(*                                                                         *)
(* Further specifications model one generate call (CallSpec), one call of  *)
(* load_prompts (LoadSpec), a history of `config` commands over the        *)
(* configuration store of cli/config.py (ConfigSpec), the sequential       *)
(* `generate file` loop (FileSpec) and the `generate interactive` session  *)
(* (InteractiveSpec).  Each one holds the variables of the others fixed.   *)
(*                                                                         *)
(* Left out of the outcome records: 'prompt' (a truncated copy of the      *)
(* input), 'processing_time' (wall clock) and 'metadata' (copied from the  *)
(* response body).                                                         *)
(***************************************************************************)
EXTENDS Integers, Sequences, FiniteSets, TLC

\* Bounds of the model.
MaxPrompts == 2
MaxWorkers == 2

\* Values of --delay that are distinguished by `delay > 0`.
Delays == {0, 1}

None == "None"
EmptyDict == [k \in {} |-> None]

\* dict.get(key, default)
Get(d, k, default) == IF k \in DOMAIN d THEN d[k] ELSE default

(***************************************************************************)
(* The backend, as seen through requests.post.                             *)
(***************************************************************************)
\* What one HTTP POST can do: answer with a status and a body, or raise.
Backend ==
    { [kind |-> "response", status |-> 200, body |-> "text"],
      [kind |-> "response", status |-> 200, body |-> "invalid"],
      [kind |-> "response", status |-> 400, body |-> "cpv"],
      [kind |-> "response", status |-> 400, body |-> "cpv_lower"],
      [kind |-> "response", status |-> 400, body |-> "badreq"],
      [kind |-> "response", status |-> 500, body |-> "empty"],
      [kind |-> "timeout", status |-> 0, body |-> "empty"],
      [kind |-> "connection_error", status |-> 0, body |-> "empty"] }

\* Every behaviour of one HTTP POST that generate_text tells apart.
Transport ==
    Backend \cup
    { [kind |-> "exception", status |-> 0, body |-> "empty"],
      [kind |-> "response", status |-> 201, body |-> "text"],
      [kind |-> "response", status |-> 400, body |-> "list"],
      [kind |-> "response", status |-> 404, body |-> "notfound"],
      [kind |-> "response", status |-> 502, body |-> "invalid"],
      [kind |-> "response", status |-> 503, body |-> "empty"] }

\* response.content is non-empty
HasContent(body) == body # "empty"

\* response.json() raises json.JSONDecodeError
JsonRaises(body) == body \in {"invalid", "empty"}

\* response.json() is a JSON object (a dict)
IsObject(body) == body \notin {"list", "invalid", "empty"}

\* response.json() when it does not raise
Json(body) ==
    CASE body = "text" ->
           [generated_text |-> "generated", metadata |-> "metadata"]
      [] body = "cpv" ->
           [error |-> "Content blocked",
            details |-> [reason |-> "Content policy violation", severity |-> "high"],
            message |-> "blocked"]
      [] body = "cpv_lower" ->
           [error |-> "Content blocked",
            details |-> [reason |-> "content policy violation", severity |-> "high"],
            message |-> "blocked"]
      [] body = "badreq" ->
           [error |-> "Missing prompt"]
      [] body = "notfound" ->
           [error |-> "Not found",
            details |-> [reason |-> "Unknown route"],
            message |-> "check the endpoint"]
      [] body = "list" -> << "item" >>
      [] OTHER -> EmptyDict

\* A client that posts a second time when the first request timed out.
post_count_retry(b) == IF b.kind = "timeout" THEN 2 ELSE 1

\* Number of requests.post calls of one generate_text call: the single call
\* in the try block, no loop around it.
post_count(b) == 1

\* A handler that reports an undecodable body like an unknown API error.
InvalidJson_unknown == [success |-> FALSE, error |-> "Unknown API error", status_code |-> 500]

\* The dict returned by the `except json.JSONDecodeError` clause.
InvalidJson == [success |-> FALSE, error |-> "Invalid JSON response", status_code |-> 500]

\* A client that takes every status below 300 for a success.
is_success_status_2xx(status) == status < 300

\* response.status_code == 200
is_success_status(status) == status = 200

\* The try block of generate_text: the dict it returns, or the exception
\* that is raised inside it.  error_data.get on a body that is not a JSON
\* object raises AttributeError.
try_block(b) ==
    CASE b.kind = "timeout" -> [raises |-> "Timeout", text |-> ""]
      [] b.kind = "connection_error" -> [raises |-> "ConnectionError", text |-> ""]
      [] b.kind = "exception" -> [raises |-> "Exception", text |-> "request failed"]
      [] b.kind = "response" /\ is_success_status(b.status) ->
           IF JsonRaises(b.body) THEN [raises |-> "JSONDecodeError", text |-> ""]
           ELSE [returns |-> [success |-> TRUE, data |-> Json(b.body),
                              status_code |-> b.status]]
      [] b.kind = "response" /\ ~is_success_status(b.status) /\ b.status = 400 ->
           IF JsonRaises(b.body) THEN [raises |-> "JSONDecodeError", text |-> ""]
           ELSE IF ~IsObject(b.body)
                THEN [raises |-> "Exception", text |-> "object has no attribute 'get'"]
                ELSE [returns |-> [success |-> FALSE,
                                   error |-> Get(Json(b.body), "error", "Bad request"),
                                   details |-> Get(Json(b.body), "details", EmptyDict),
                                   message |-> Get(Json(b.body), "message", ""),
                                   status_code |-> b.status]]
      [] OTHER ->
           IF HasContent(b.body) /\ JsonRaises(b.body)
           THEN [raises |-> "JSONDecodeError", text |-> ""]
           ELSE IF HasContent(b.body) /\ ~IsObject(b.body)
                THEN [raises |-> "Exception", text |-> "object has no attribute 'get'"]
                ELSE [returns |-> [success |-> FALSE,
                                   error |-> Get(IF HasContent(b.body) THEN Json(b.body)
                                                                       ELSE EmptyDict,
                                                 "error", "Unknown API error"),
                                   status_code |-> b.status]]

\* f'Unexpected error: {str(e)}'
unexpected_error(text) ==
    IF text = "request failed"
    THEN "Unexpected error: request failed"
    ELSE "Unexpected error: object has no attribute 'get'"

\* Exception handlers without the final `except Exception`: any other
\* exception leaves generate_text.
except_clauses_no_catch_all(exc, text) ==
    CASE exc = "Timeout" ->
           [success |-> FALSE,
            error |-> "Request timeout - API took too long to respond",
            status_code |-> 408]
      [] exc = "ConnectionError" ->
           [success |-> FALSE,
            error |-> "Connection error - Could not reach API",
            status_code |-> 503]
      [] exc = "JSONDecodeError" -> InvalidJson
      [] OTHER -> [raised |-> exc]

\* The except clauses of generate_text: the dict returned for an exception
\* raised in the try block.
except_clauses(exc, text) ==
    CASE exc = "Timeout" ->
           [success |-> FALSE,
            error |-> "Request timeout - API took too long to respond",
            status_code |-> 408]
      [] exc = "ConnectionError" ->
           [success |-> FALSE,
            error |-> "Connection error - Could not reach API",
            status_code |-> 503]
      [] exc = "JSONDecodeError" -> InvalidJson
      [] OTHER ->
           [success |-> FALSE,
            error |-> unexpected_error(text),
            status_code |-> 500]

\* GenAIClient.generate_text: the result dict for one backend behaviour.
generate_text(b) ==
    IF "raises" \in DOMAIN try_block(b)
    THEN except_clauses(try_block(b).raises, try_block(b).text)
    ELSE try_block(b).returns

(***************************************************************************)
(* The parameters of a generate call.  An option is the empty tuple when   *)
(* it is not given (None) and a one-element tuple when it is; temperatures *)
(* are in tenths.                                                          *)
(***************************************************************************)
\* Values of --max-tokens, --temperature and --user-id.
MaxTokensOptions == { << >>, << 1 >>, << 4000 >> }
TemperatureOptions == { << >>, << 0 >>, << 3 >>, << 10 >> }
UserIdOptions == { << >>, << "alice" >> }

\* CLIConfig._load_config: the built-in defaults
DefaultConfig ==
    [api_endpoint |-> "https://2i9yquihz5.execute-api.us-east-2.amazonaws.com/Prod",
     default_user_id |-> "cli_user",
     default_max_tokens |-> 1000,
     default_temperature |-> 7,
     output_format |-> "text",
     log_level |-> "INFO",
     timeout |-> 30]

\* The built-in defaults, and defaults overridden by the config file.
Configs ==
    { DefaultConfig,
      [DefaultConfig EXCEPT !.default_max_tokens = 2000,
                            !.default_temperature = 5,
                            !.default_user_id = "file_user"] }

\* No option is given.
NoOptions == [max_tokens |-> << >>, temperature |-> << >>, user_id |-> << >>]

\* The options of one `batch process` run: none given, or all three.
BatchOptions ==
    { NoOptions,
      [max_tokens |-> << 4000 >>, temperature |-> << 3 >>, user_id |-> << "alice" >>] }

\* `if max_tokens:` / `if temperature:` - None and 0 are false
truthy_number(option) == option # << >> /\ option[1] # 0

\* `if user_id:` - None and '' are false
truthy_string(option) == option # << >> /\ option[1] # ""

\* The keys of params after the three `if` statements.
params_keys(o) ==
    { k \in {"max_tokens", "temperature", "user_id"} :
        CASE k = "max_tokens" -> truthy_number(o.max_tokens)
          [] k = "temperature" -> truthy_number(o.temperature)
          [] OTHER -> truthy_string(o.user_id) }

\* process_single_prompt: params = {} and the three `if` statements
batch_params(o) == [k \in params_keys(o) |-> o[k][1]]

\* generate text: params = {} and the three `if` statements
text_params(o) == [k \in params_keys(o) |-> o[k][1]]

\* generate_text: the JSON body of the request
request_payload(kwargs, cfg) ==
    [prompt |-> "prompt",
     max_tokens |-> Get(kwargs, "max_tokens", Get(cfg, "default_max_tokens", 1000)),
     temperature |-> Get(kwargs, "temperature", Get(cfg, "default_temperature", 7)),
     user_id |-> Get(kwargs, "user_id", Get(cfg, "default_user_id", "cli_user"))]

\* A client that keeps the parameters of its last call as its defaults.
client_after_generate_remembering(cfg, kwargs) ==
    [cfg EXCEPT !.default_max_tokens = Get(kwargs, "max_tokens", @),
                !.default_temperature = Get(kwargs, "temperature", @),
                !.default_user_id = Get(kwargs, "user_id", @)]

\* The configuration held by the client when generate_text returns: no
\* statement of generate_text assigns an attribute of self or an item of
\* self.config, and requests.post keeps no session.
client_after_generate(cfg, kwargs) == cfg

(***************************************************************************)
(* process_single_prompt                                                   *)
(***************************************************************************)
\* What writing one result file can do.
Persist == {"ok", "open_fails", "write_fails"}

\* output_path / f"result_{index + 1:04d}.txt", named by its number
output_file(index) == index + 1

\* A classifier that looks at the status code only.
is_content_filtered_any_400(result) ==
    Get(result, "status_code", 0) = 400

\* result.get('status_code') == 400 and
\* result.get('details', {}).get('reason') == 'Content policy violation'
is_content_filtered(result) ==
    /\ Get(result, "status_code", 0) = 400
    /\ Get(Get(result, "details", EmptyDict), "reason", None) = "Content policy violation"

\* The dict returned on the success branch.
success_outcome(index) ==
    [success |-> TRUE, index |-> index, output_file |-> output_file(index)]

\* A failure branch that returns the error alone.
failure_outcome_partial(index, result) ==
    [success |-> FALSE,
     index |-> index,
     error |-> Get(result, "error", "Unknown error")]

\* The dict returned on the failure branch.
failure_outcome(index, result) ==
    [success |-> FALSE,
     content_filtered |-> is_content_filtered(result),
     index |-> index,
     error |-> Get(result, "error", "Unknown error")]

\* The unit of work raises instead of returning: open() or f.write() failed.
unit_raises(result, persist) ==
    Get(result, "success", FALSE) /\ persist # "ok"

\* The result file exists after the unit of work.
unit_creates_file(result, persist) ==
    Get(result, "success", FALSE) /\ persist # "open_fails"

\* The value the unit of work returns when it does not raise.
process_single_prompt(index, result) ==
    IF Get(result, "success", FALSE)
    THEN success_outcome(index)
    ELSE failure_outcome(index, result)

(***************************************************************************)
(* The configuration store (cli/config.py) and the `config` commands       *)
(* (cli/commands/config.py).  Command-line values are strings; numbers     *)
(* are integers, temperatures in tenths.                                   *)
(***************************************************************************)
\* Bound on the number of config commands of one history.
MaxCommands == 3

\* float('nan'): every ordering comparison with it is false.
NaN == -9999

\* a < b on floats
float_lt(a, b) == a # NaN /\ b # NaN /\ a < b

\* int(value): the one-element tuple of the number, the empty tuple when
\* ValueError is raised
parse_int(value) ==
    CASE value = "1500" -> << 1500 >>
      [] value = "500" -> << 500 >>
      [] value = "0" -> << 0 >>
      [] value = "4001" -> << 4001 >>
      [] value = "60" -> << 60 >>
      [] OTHER -> << >>

\* float(value), likewise
parse_float(value) ==
    CASE value = "0.8" -> << 8 >>
      [] value = "1.5" -> << 15 >>
      [] value = "nan" -> << NaN >>
      [] OTHER -> << >>

\* value.upper()
upper(value) ==
    CASE value = "debug" -> "DEBUG"
      [] value = "verbose" -> "VERBOSE"
      [] OTHER -> value

\* value.startswith('https://')
startswith_https(value) ==
    value \in {"https://api.amazonaws.com/Prod", "https://example.com"}

\* 'amazonaws.com' in value or 'localhost' in value
looks_like_aws(value) ==
    value \in {"https://api.amazonaws.com/Prod", "http://localhost:3000"}

\* valid_keys
valid_keys ==
    {"api_endpoint", "default_user_id", "default_max_tokens", "default_temperature",
     "output_format", "log_level", "timeout"}

\* The keys given to `config set` and `config get`.
ConfigKeys == valid_keys \cup {"test_key"}

\* The values given to `config set KEY`.
SetValues(key) ==
    CASE key = "api_endpoint" ->
           {"https://api.amazonaws.com/Prod", "https://example.com", "http://localhost:3000"}
      [] key = "default_user_id" -> {"alice"}
      [] key = "default_max_tokens" -> {"1500", "4001", "abc"}
      [] key = "default_temperature" -> {"0.8", "1.5", "nan", "abc"}
      [] key = "output_format" -> {"json", "xml"}
      [] key = "log_level" -> {"debug", "verbose"}
      [] key = "timeout" -> {"60", "0"}
      [] OTHER -> {"test_value"}

\* The body of `config set` up to config.set: "updated" with the converted
\* value, "rejected" after an error message, "declined" when the user does
\* not confirm, "raised" when the conversion raises ValueError.
config_set(key, value, confirm) ==
    IF key \notin valid_keys /\ ~confirm THEN [status |-> "declined"]
    ELSE
    CASE key \in {"default_max_tokens", "timeout"} ->
           IF parse_int(value) = << >> THEN [status |-> "raised"]
           ELSE IF key = "default_max_tokens"
                   /\ (parse_int(value)[1] < 1 \/ parse_int(value)[1] > 4000)
                THEN [status |-> "rejected"]
           ELSE IF key = "timeout"
                   /\ (parse_int(value)[1] < 1 \/ parse_int(value)[1] > 300)
                THEN [status |-> "rejected"]
           ELSE [status |-> "updated", value |-> parse_int(value)[1]]
      [] key = "default_temperature" ->
           IF parse_float(value) = << >> THEN [status |-> "raised"]
           ELSE IF float_lt(parse_float(value)[1], 0) \/ float_lt(10, parse_float(value)[1])
                THEN [status |-> "rejected"]
           ELSE [status |-> "updated", value |-> parse_float(value)[1]]
      [] key = "output_format" ->
           IF value \notin {"text", "json"} THEN [status |-> "rejected"]
           ELSE [status |-> "updated", value |-> value]
      [] key = "log_level" ->
           IF upper(value) \notin {"DEBUG", "INFO", "WARNING", "ERROR"}
           THEN [status |-> "rejected"]
           ELSE [status |-> "updated", value |-> upper(value)]
      [] key = "api_endpoint" ->
           IF ~startswith_https(value) THEN [status |-> "rejected"]
           ELSE IF ~looks_like_aws(value) /\ ~confirm THEN [status |-> "declined"]
           ELSE [status |-> "updated", value |-> value]
      [] OTHER -> [status |-> "updated", value |-> value]

\* CLIConfig.set: self._config[key] = value
dict_set(d, key, value) ==
    [j \in DOMAIN d \cup {key} |-> IF j = key THEN value ELSE d[j]]

\* The config file does not exist.
NoFile == [exists |-> FALSE]

\* What open(self.config_file, 'w') can do.
SaveOutcomes == {"ok", "open_fails"}

\* CLIConfig.save_config: the file afterwards.  An exception of open() is
\* caught and printed; yaml.dump and yaml.safe_load keep the keys and the
\* values of a dict of strings and numbers.
save_config(cfg, file, outcome) ==
    IF outcome = "ok" THEN [exists |-> TRUE, content |-> cfg] ELSE file

\* env_mapping
env_mapping ==
    [GENAI_API_ENDPOINT |-> "api_endpoint", GENAI_USER_ID |-> "default_user_id",
     GENAI_MAX_TOKENS |-> "default_max_tokens",
     GENAI_TEMPERATURE |-> "default_temperature"]

\* The environments: no GENAI_* variable set, or one of them.
Envs ==
    { EmptyDict, [GENAI_MAX_TOKENS |-> "500"], [GENAI_USER_ID |-> "env_user"] }

\* The type conversion of an environment value.
env_value(key, value) ==
    CASE key = "default_max_tokens" /\ parse_int(value) # << >> -> parse_int(value)[1]
      [] key = "default_temperature" /\ parse_float(value) # << >> -> parse_float(value)[1]
      [] OTHER -> value

\* config.update(file_config)
dict_update(d, e) ==
    [j \in DOMAIN d \cup DOMAIN e |-> IF j \in DOMAIN e THEN e[j] ELSE d[j]]

\* CLIConfig._load_config: the defaults, updated from the file, overridden
\* by the environment
load_config(file, environ) ==
    LET from_file == IF file.exists THEN dict_update(DefaultConfig, file.content)
                     ELSE DefaultConfig
        overrides == [key \in { env_mapping[v] : v \in DOMAIN environ } |->
                         LET v == CHOOSE v \in DOMAIN environ : env_mapping[v] = key
                         IN env_value(key, environ[v])]
    IN dict_update(from_file, overrides)

\* The defaults dict of `config reset`, set key by key.
reset_config(cfg) == dict_update(cfg, DefaultConfig)

(***************************************************************************)
(* load_prompts.  A line or a prompt is a sequence of characters, " "      *)
(* standing for any whitespace; a text file is the sequence of its lines   *)
(* (without their line ends), a JSON file is what json.load makes of it.   *)
(***************************************************************************)
\* Bounds of the input files.
MaxLines == 3
MaxLineLen == 2

Chars == {"a", "b", " "}

\* The sequences over S of length at most n.
SeqsUpTo(S, n) == UNION { [1 .. m -> S] : m \in 0 .. n }

\* The lines a text file can hold.
Lines == SeqsUpTo(Chars, MaxLineLen)

\* The documents a JSON file can hold: a list, an object with or without a
\* 'prompts' key, another value, or text json.load cannot decode.
JsonDocs ==
    { [type |-> "list", items |-> l] : l \in SeqsUpTo({<< "a" >>, << " ", "b" >>, << >>}, MaxLines) }
    \cup { [type |-> "dict", prompts |-> l] : l \in SeqsUpTo({<< "a" >>, << " ", "b" >>, << >>}, MaxLines) }
    \cup { [type |-> "dict", other |-> << >>], [type |-> "str"], [type |-> "undecodable"] }

MissingFile == [exists |-> FALSE, suffix |-> ".txt", lines |-> << >>, doc |-> [type |-> "str"]]

\* The input files.
SourceFiles ==
    { MissingFile, [MissingFile EXCEPT !.suffix = ".json"] }
    \cup { [exists |-> TRUE, suffix |-> x, lines |-> ls, doc |-> [type |-> "str"]] :
             x \in {".txt", ""}, ls \in SeqsUpTo(Lines, MaxLines) }
    \cup { [exists |-> TRUE, suffix |-> x, lines |-> << >>, doc |-> d] :
             x \in {".json", ".JSON"}, d \in JsonDocs }

\* str.lower(), of a file suffix or of a line typed in the interactive session
lower(text) ==
    CASE text = ".JSON" -> ".json"
      [] text = "EXIT" -> "exit"
      [] text = "Stats" -> "stats"
      [] OTHER -> text

\* str.lstrip()
RECURSIVE lstrip(_)
lstrip(line) ==
    IF line # << >> /\ Head(line) = " " THEN lstrip(Tail(line)) ELSE line

\* str.rstrip()
RECURSIVE rstrip(_)
rstrip(line) ==
    IF line # << >> /\ line[Len(line)] = " "
    THEN rstrip(SubSeq(line, 1, Len(line) - 1))
    ELSE line

\* A loader that strips the left side only.
strip_left_only(line) == lstrip(line)

\* str.strip()
strip(line) == rstrip(lstrip(line))

\* [line.strip() for line in f if line.strip()]
RECURSIVE stripped_lines(_)
stripped_lines(ls) ==
    IF ls = << >> THEN << >>
    ELSE IF strip(Head(ls)) # << >>
         THEN << strip(Head(ls)) >> \o stripped_lines(Tail(ls))
         ELSE stripped_lines(Tail(ls))

\* load_prompts(input_file): the list it returns or the exception it raises
load_prompts(f) ==
    IF ~f.exists THEN [raises |-> "FileNotFoundError"]
    ELSE IF lower(f.suffix) = ".json"
         THEN CASE f.doc.type = "undecodable" -> [raises |-> "JSONDecodeError"]
                [] f.doc.type = "list" -> [returns |-> f.doc.items]
                [] f.doc.type = "dict" /\ "prompts" \in DOMAIN f.doc ->
                     [returns |-> f.doc.prompts]
                [] OTHER -> [raises |-> "ValueError"]
         ELSE [returns |-> stripped_lines(f.lines)]

(***************************************************************************)
(* Helpers of process() and process_prompts_concurrent()                   *)
(***************************************************************************)
\* An insertion that compares the wrong way round: descending order.
RECURSIVE insert_by_index_descending(_, _)
insert_by_index_descending(sorted, r) ==
    IF sorted = << >> THEN << r >>
    ELSE IF Get(r, "index", 0) > Get(Head(sorted), "index", 0)
         THEN << r >> \o sorted
         ELSE << Head(sorted) >> \o insert_by_index_descending(Tail(sorted), r)

\* Insertion of one result into a list sorted by 'index', after its equals.
RECURSIVE insert_by_index(_, _)
insert_by_index(sorted, r) ==
    IF sorted = << >> THEN << r >>
    ELSE IF Get(r, "index", 0) < Get(Head(sorted), "index", 0)
         THEN << r >> \o sorted
         ELSE << Head(sorted) >> \o insert_by_index(Tail(sorted), r)

\* A dispatcher that returns the results in completion order.
sort_by_index_omitted(rs) == rs

\* results.sort(key=lambda x: x.get('index', 0)), a stable sort
RECURSIVE sort_by_index(_)
sort_by_index(rs) ==
    IF rs = << >> THEN << >>
    ELSE insert_by_index(sort_by_index(SubSeq(rs, 1, Len(rs) - 1)), rs[Len(rs)])

\* sum(1 for r in results if r.get(key))
RECURSIVE count_true(_, _)
count_true(rs, key) ==
    IF rs = << >> THEN 0
    ELSE (IF Get(Head(rs), key, FALSE) THEN 1 ELSE 0) + count_true(Tail(rs), key)

\* successful
count_successful(rs) == count_true(rs, "success")

\* content_filtered
count_content_filtered(rs) == count_true(rs, "content_filtered")

\* A count that takes content-filtered results out of the failures.
count_failed_disjoint(rs) ==
    Len(rs) - count_successful(rs) - count_content_filtered(rs)

\* failed
count_failed(rs) == Len(rs) - count_successful(rs)

\* The summary dict of process().
make_summary(ps, rs) ==
    [total_prompts |-> Len(ps),
     successful |-> count_successful(rs),
     failed |-> count_failed(rs),
     content_filtered |-> count_content_filtered(rs),
     results |-> rs]

\* A dispatcher without the empty check.
no_prompts_unchecked(ps) == FALSE

\* len(prompts) == 0
no_prompts(ps) == Len(ps) = 0

\* load_prompts raises: FileNotFoundError, json.JSONDecodeError or ValueError
load_raises(kind) == kind # "ok"

\* A mkdir whose failure is swallowed.
mkdir_raises_never(creatable) == FALSE

\* output_path.mkdir(exist_ok=True) raises
mkdir_raises(creatable) == ~creatable

\* A pacing that also waits after the last submission.
sleep_after_submit_always(d, idx, n) == d > 0

\* delay > 0 and i < len(prompts) - 1
sleep_after_submit(d, idx, n) == d > 0 /\ idx < n - 1

\* A pool that starts a thread for every work item.
worker_available_unbounded(running, workers) == TRUE

\* ThreadPoolExecutor(max_workers): a work item is taken by a worker thread
\* that is not executing another one, and there are at most max_workers.
worker_available(running, workers) == Cardinality(running) < workers

\* A collection loop that is left after the first result.
as_completed_exhausted_early(done, all) == done # {}

\* `for future in as_completed(future_to_index)` has yielded every future.
as_completed_exhausted(done, all) == done = all

\* Progress indicator of one collected result.
progress_status(result) ==
    IF Get(result, "content_filtered", FALSE) THEN "filtered"
    ELSE IF Get(result, "success", FALSE) THEN "ok" ELSE "failed"

(***************************************************************************)
(* State                                                                   *)
(***************************************************************************)
VARIABLES
    input,        \* the input file: [kind, count]
    outdir_ok,    \* the output directory can be created
    max_workers,  \* --max-workers
    delay,        \* --delay
    pc,           \* position of the main thread
    prompts,      \* the loaded prompts (their positions)
    i,            \* loop variable of the submission loop
    fstate,       \* state of the future of each prompt index
    fvalue,       \* result of each finished future
    queue,        \* work queue of the executor, FIFO
    yielded,      \* futures as_completed has yielded
    results,      \* results
    completed,    \* completed
    progress,     \* progress lines echoed
    files,        \* result files in the output directory
    summary,      \* batch_summary.json, the empty dict while not written
    error,        \* exception that left process(), None if none
    echoed,       \* messages echoed by process()
    calls,        \* number of generate_text calls per prompt index
    posts,        \* number of requests.post calls per prompt index
    sleeps,       \* number of time.sleep(delay) calls
    resp,         \* backend behaviour met by each unit of work
    persist,      \* file-write behaviour met by each unit of work
    sent,         \* the JSON body posted by each unit of work
    caller,       \* the command that makes the generate call under study
    opts,         \* its options: max_tokens, temperature, user_id
    config,       \* the configuration of the client
    cpc,          \* position of the generate call under study
    params,       \* the keyword arguments built by the caller
    payload,      \* the JSON body posted
    cb,           \* what the backend did with the request
    cresult,      \* what generate_text returned
    source,       \* the input file given to load_prompts
    loaded,       \* what load_prompts did: the list returned or the exception
    disk,         \* ~/.genai-bot/config.yaml
    env,          \* the GENAI_* environment variables
    out,          \* what the last config command did and reported
    lastset,      \* per key, the value of its last set that reported success
    ncmd,         \* number of config commands run
    fcount,       \* generate file: len(prompts)
    fidx,         \* generate file: number of prompts processed
    successful,   \* generate file: successful
    failed,       \* generate file: failed
    flog,         \* generate file: per processed prompt, its number and what it met
    ffiles,       \* generate file: the output files
    fpc,          \* generate file: position of the command
    rpc,          \* interactive session: position of the loop
    transcript    \* interactive session: per iteration, what was typed and done

vars == << input, outdir_ok, max_workers, delay, pc, prompts, i, fstate, fvalue,
           queue, yielded, results, completed, progress, files, summary, error,
           echoed, calls, posts, sleeps, resp, persist, sent,
           caller, opts, config, cpc, params, payload, cb, cresult,
           source, loaded, disk, env, out, lastset, ncmd,
           fcount, fidx, successful, failed, flog, ffiles, fpc, rpc, transcript >>

call_vars == << caller, opts, config, cpc, params, payload, cb, cresult >>
batch_vars == << input, outdir_ok, max_workers, delay, pc, prompts, i, fstate,
                fvalue, queue, yielded, results, completed, progress, files,
                summary, error, echoed, calls, posts, sleeps, resp, persist, sent >>

load_vars == << source, loaded >>

\* The variables of the commands other than the batch run and the generate
\* call.
config_vars == << disk, env, out, lastset, ncmd >>

file_vars == << fcount, fidx, successful, failed, flog, ffiles, fpc >>

repl_vars == << rpc, transcript >>

cmd_vars == << load_vars, config_vars, file_vars, repl_vars >>

env_vars == << input, outdir_ok, max_workers, delay >>
main_vars == << pc, prompts, i, yielded, results, completed, progress, summary,
                error, echoed, sleeps >>

Indices == 0 .. (input.count - 1)

InputKinds == {"ok", "missing", "unparseable"}

\* No single generate call is under study.
CallIdle ==
    /\ caller = None
    /\ cpc = "off"
    /\ params = EmptyDict
    /\ payload = EmptyDict
    /\ cb = None
    /\ cresult = EmptyDict

\* No single generate call is under study and the configuration is the
\* built-in one.
CallOff == CallIdle /\ config = DefaultConfig

\* The state of process() before its first statement, for a given input.
BatchStart ==
    /\ prompts = << >>
    /\ i = 0
    /\ fstate = [k \in Indices |-> "unsubmitted"]
    /\ fvalue = [k \in Indices |-> EmptyDict]
    /\ queue = << >>
    /\ yielded = {}
    /\ results = << >>
    /\ completed = 0
    /\ progress = << >>
    /\ files = {}
    /\ summary = EmptyDict
    /\ error = None
    /\ echoed = {}
    /\ calls = [k \in Indices |-> 0]
    /\ posts = [k \in Indices |-> 0]
    /\ sleeps = 0
    /\ resp = [k \in Indices |-> None]
    /\ persist = [k \in Indices |-> None]
    /\ sent = [k \in Indices |-> EmptyDict]

\* load_prompts is not under study.
LoadOff ==
    /\ source = MissingFile
    /\ loaded = EmptyDict

\* No config command is under study.
ConfigOff ==
    /\ disk = NoFile
    /\ env = EmptyDict
    /\ out = [cmd |-> "start"]
    /\ lastset = [k \in {} |-> << >>]
    /\ ncmd = 0

\* `generate file` is not under study.
FileOff ==
    /\ fcount = 0
    /\ fidx = 0
    /\ successful = 0
    /\ failed = 0
    /\ flog = << >>
    /\ ffiles = {}
    /\ fpc = "off"

\* `generate interactive` is not under study.
ReplOff ==
    /\ rpc = "off"
    /\ transcript = << >>

\* No other command is under study.
CmdOff == LoadOff /\ ConfigOff /\ FileOff /\ ReplOff

Init ==
    /\ input \in { [kind |-> k, count |-> n] : k \in InputKinds, n \in 0 .. MaxPrompts }
    /\ input.kind # "ok" => input.count = 0
    /\ outdir_ok \in BOOLEAN
    /\ max_workers \in 1 .. MaxWorkers
    /\ delay \in Delays
    /\ pc = "load"
    /\ BatchStart
    /\ opts \in BatchOptions
    /\ CallOff
    /\ CmdOff

(***************************************************************************)
(* Main thread: process()                                                  *)
(***************************************************************************)
\* load_prompts(input) and the empty check
LoadPrompts ==
    /\ pc = "load"
    /\ IF load_raises(input.kind)
       THEN /\ error' = (IF input.kind = "missing" THEN "FileNotFoundError"
                                                    ELSE "ValueError")
            /\ pc' = "aborted"
            /\ UNCHANGED << prompts, echoed >>
       ELSE /\ prompts' = [k \in 1 .. input.count |-> k - 1]
            /\ IF no_prompts(prompts')
               THEN /\ echoed' = echoed \cup {"loaded", "no_prompts"}
                    /\ pc' = "returned"
               ELSE /\ echoed' = echoed \cup {"loaded"}
                    /\ pc' = "mkdir"
            /\ UNCHANGED error
    /\ UNCHANGED << cmd_vars, call_vars, env_vars, i, fstate, fvalue, queue, yielded, results, completed,
                    progress, files, summary, calls, posts, sleeps, resp, persist, sent >>

\* output_path.mkdir(exist_ok=True), then entry of process_prompts_concurrent
MakeOutputDir ==
    /\ pc = "mkdir"
    /\ IF mkdir_raises(outdir_ok)
       THEN /\ error' = "OSError"
            /\ pc' = "aborted"
            /\ UNCHANGED echoed
       ELSE /\ echoed' = echoed \cup {"output_directory", "starting"}
            /\ pc' = "submit"
            /\ UNCHANGED error
    /\ UNCHANGED << cmd_vars, call_vars, env_vars, prompts, i, fstate, fvalue, queue, yielded, results,
                    completed, progress, files, summary, calls, posts, sleeps, resp, persist, sent >>

\* One iteration of the submission loop, up to the sleep.
Submit ==
    /\ pc = "submit"
    /\ i < Len(prompts)
    /\ fstate' = [fstate EXCEPT ![i] = "pending"]
    /\ queue' = Append(queue, i)
    /\ IF sleep_after_submit(delay, i, Len(prompts))
       THEN pc' = "sleep"
       ELSE pc' = "submit"
    /\ i' = i + 1
    /\ UNCHANGED << cmd_vars, call_vars, env_vars, prompts, fvalue, yielded, results, completed, progress,
                    files, summary, error, echoed, calls, posts, sleeps, resp, persist, sent >>

\* time.sleep(delay) returns
Sleep ==
    /\ pc = "sleep"
    /\ sleeps' = sleeps + 1
    /\ pc' = "submit"
    /\ UNCHANGED << cmd_vars, call_vars, env_vars, prompts, i, fstate, fvalue, queue, yielded, results,
                    completed, progress, files, summary, error, echoed, calls, posts,
                    resp, persist, sent >>

\* The submission loop ends; as_completed starts.
StartCollect ==
    /\ pc = "submit"
    /\ i >= Len(prompts)
    /\ pc' = "collect"
    /\ UNCHANGED << cmd_vars, call_vars, env_vars, prompts, i, fstate, fvalue, queue, yielded, results,
                    completed, progress, files, summary, error, echoed, calls, posts,
                    sleeps, resp, persist, sent >>

\* One iteration of the collection loop: as_completed yields a finished
\* future whose result() returns.
Collect(k) ==
    /\ pc = "collect"
    /\ k \notin yielded
    /\ fstate[k] = "finished"
    /\ yielded' = yielded \cup {k}
    /\ results' = Append(results, fvalue[k])
    /\ completed' = completed + 1
    /\ progress' = Append(progress,
                          [status |-> progress_status(fvalue[k]),
                           completed |-> completed + 1,
                           total |-> Len(prompts),
                           prompt |-> k + 1])
    /\ UNCHANGED << cmd_vars, call_vars, env_vars, pc, prompts, i, fstate, fvalue, queue, files, summary,
                    error, echoed, calls, posts, sleeps, resp, persist, sent >>

\* as_completed yields a future whose result() raises: the loop is left.
CollectRaises(k) ==
    /\ pc = "collect"
    /\ k \notin yielded
    /\ fstate[k] = "raised"
    /\ yielded' = yielded \cup {k}
    /\ error' = fvalue[k].exception
    /\ pc' = "unwind"
    /\ UNCHANGED << cmd_vars, call_vars, env_vars, prompts, i, fstate, fvalue, queue, results, completed,
                    progress, files, summary, echoed, calls, posts, sleeps, resp, persist, sent >>

\* Every submitted unit of work is over.
AllUnitsOver == \A k \in Indices : fstate[k] \in {"unsubmitted", "finished", "raised"}

\* Exit of the `with ThreadPoolExecutor` block: shutdown(wait=True) returns
\* once every submitted unit is over.  Then either the pending exception
\* leaves process(), or the results are sorted and returned.
ExitPool ==
    /\ \/ pc = "collect" /\ as_completed_exhausted(yielded, Indices)
       \/ pc = "unwind"
    /\ AllUnitsOver
    /\ IF pc = "unwind"
       THEN /\ pc' = "aborted"
            /\ UNCHANGED results
       ELSE /\ pc' = "summarize"
            /\ results' = sort_by_index(results)
    /\ UNCHANGED << cmd_vars, call_vars, env_vars, prompts, i, fstate, fvalue, queue, yielded, completed,
                    progress, files, summary, error, echoed, calls, posts, sleeps, resp,
                    persist, sent >>

\* The summary is computed and batch_summary.json is written.
WriteSummary ==
    /\ pc = "summarize"
    /\ summary' = make_summary(prompts, results)
    /\ echoed' = echoed \cup {"complete"}
    /\ pc' = "done"
    /\ UNCHANGED << cmd_vars, call_vars, env_vars, prompts, i, fstate, fvalue, queue, yielded, results,
                    completed, progress, files, error, calls, posts, sleeps, resp, persist, sent >>

(***************************************************************************)
(* Workers of the ThreadPoolExecutor                                       *)
(***************************************************************************)
\* The units of work a worker thread is executing.
Running == { k \in Indices : fstate[k] = "running" }

\* A free worker takes the oldest work item; process_single_prompt builds its
\* own params and calls generate_text, which builds the payload from them and
\* from the configuration of the shared client.
WorkerStart ==
    /\ queue # << >>
    /\ worker_available(Running, max_workers)
    /\ fstate' = [fstate EXCEPT ![Head(queue)] = "running"]
    /\ calls' = [calls EXCEPT ![Head(queue)] = @ + 1]
    /\ queue' = Tail(queue)
    /\ sent' = [sent EXCEPT ![Head(queue)] = request_payload(batch_params(opts), config)]
    /\ UNCHANGED << cmd_vars, call_vars, env_vars, main_vars, fvalue, files, posts, resp, persist >>

\* requests.post is over (answer or exception, b); generate_text returns and
\* the rest of process_single_prompt runs.  b is what the backend did, p
\* what writing the result file does (None when no file is written).
WorkerFinish(k) ==
    /\ fstate[k] = "running"
    /\ \E b \in Backend, p \in Persist \cup {None} :
         LET result == generate_text(b) IN
         /\ (p = None) = ~Get(result, "success", FALSE)
         /\ resp' = [resp EXCEPT ![k] = b]
         /\ posts' = [posts EXCEPT ![k] = @ + post_count(b)]
         /\ persist' = [persist EXCEPT ![k] = p]
         /\ files' = IF unit_creates_file(result, p)
                     THEN files \cup {output_file(k)} ELSE files
         /\ IF unit_raises(result, p)
            THEN /\ fstate' = [fstate EXCEPT ![k] = "raised"]
                 /\ fvalue' = [fvalue EXCEPT ![k] = [exception |-> "OSError"]]
            ELSE /\ fstate' = [fstate EXCEPT ![k] = "finished"]
                 /\ fvalue' = [fvalue EXCEPT ![k] = process_single_prompt(k, result)]
    /\ config' = client_after_generate(config, batch_params(opts))
    /\ UNCHANGED << cmd_vars, caller, opts, cpc, params, payload, cb, cresult, env_vars, main_vars,
                    queue, calls, sent >>

Next ==
    \/ LoadPrompts
    \/ MakeOutputDir
    \/ Submit
    \/ Sleep
    \/ StartCollect
    \/ \E k \in Indices : Collect(k)
    \/ \E k \in Indices : CollectRaises(k)
    \/ ExitPool
    \/ WriteSummary
    \/ WorkerStart
    \/ \E k \in Indices : WorkerFinish(k)

Spec == Init /\ [][Next]_vars

\* The interpreter runs every thread that can run.
FairSpec == Spec /\ WF_vars(Next)

(***************************************************************************)
(* A run with a caller-level interrupt                                     *)
(***************************************************************************)
\* KeyboardInterrupt is raised in the main thread while it is inside the
\* `with ThreadPoolExecutor` block (submitting, sleeping or collecting).  No
\* handler catches it: the block is left through its __exit__.
Interrupt ==
    /\ pc \in {"submit", "sleep", "collect"}
    /\ error' = "KeyboardInterrupt"
    /\ pc' = "unwind"
    /\ UNCHANGED << cmd_vars, call_vars, env_vars, prompts, i, fstate, fvalue, queue, yielded, results,
                    completed, progress, files, summary, echoed, calls, posts, sleeps,
                    resp, persist, sent >>

InterruptNext == Next \/ Interrupt

InterruptSpec == Init /\ [][InterruptNext]_vars

(***************************************************************************)
(* One generate call, made by a unit of work of the batch dispatcher or by *)
(* `generate text`                                                         *)
(***************************************************************************)
\* No batch is running.
BatchOff ==
    /\ input = [kind |-> "ok", count |-> 0]
    /\ outdir_ok = TRUE
    /\ max_workers = 1
    /\ delay = 0
    /\ pc = "off"
    /\ BatchStart

CallInit ==
    /\ BatchOff
    /\ CmdOff
    /\ caller \in {"batch", "generate"}
    /\ opts \in [max_tokens : MaxTokensOptions, temperature : TemperatureOptions,
                 user_id : UserIdOptions]
    /\ config \in Configs
    /\ cpc = "start"
    /\ params = EmptyDict
    /\ payload = EmptyDict
    /\ cb = None
    /\ cresult = EmptyDict

\* The caller builds the keyword arguments from its options.
BuildParams ==
    /\ cpc = "start"
    /\ params' = (IF caller = "batch" THEN batch_params(opts) ELSE text_params(opts))
    /\ cpc' = "params"
    /\ UNCHANGED << cmd_vars, batch_vars, caller, opts, config, payload, cb, cresult >>

\* generate_text builds the payload and posts it.
PostRequest ==
    /\ cpc = "params"
    /\ payload' = request_payload(params, config)
    /\ cpc' = "posted"
    /\ UNCHANGED << cmd_vars, batch_vars, caller, opts, config, params, cb, cresult >>

\* requests.post is over; generate_text returns its result dict, unless an
\* exception leaves it.
ReceiveAnswer(b) ==
    /\ cpc = "posted"
    /\ cb' = b
    /\ cresult' = generate_text(b)
    /\ cpc' = (IF "raised" \in DOMAIN generate_text(b) THEN "raised" ELSE "returned")
    /\ UNCHANGED << cmd_vars, batch_vars, caller, opts, config, params, payload >>

CallNext ==
    \/ BuildParams
    \/ PostRequest
    \/ \E b \in Transport : ReceiveAnswer(b)

CallSpec == CallInit /\ [][CallNext]_vars

(***************************************************************************)
(* One call of load_prompts                                                *)
(***************************************************************************)
LoadInit ==
    /\ BatchOff
    /\ opts = NoOptions
    /\ CallOff
    /\ source \in SourceFiles
    /\ loaded = EmptyDict
    /\ ConfigOff
    /\ FileOff
    /\ ReplOff

\* load_prompts(input_file) returns or raises.
LoadFile ==
    /\ loaded = EmptyDict
    /\ loaded' = load_prompts(source)
    /\ UNCHANGED << batch_vars, call_vars, config_vars, file_vars, repl_vars, source >>

LoadNext == LoadFile

LoadSpec == LoadInit /\ [][LoadNext]_vars

(***************************************************************************)
(* A history of `config` commands.  Each command runs in the process that  *)
(* ran the one before (as under the test runner) or in a new process,      *)
(* which builds its CLIConfig from the file and the environment.           *)
(***************************************************************************)
ConfigInit ==
    /\ BatchOff
    /\ opts = NoOptions
    /\ CallIdle
    /\ LoadOff
    /\ FileOff
    /\ ReplOff
    /\ disk = NoFile
    /\ env \in Envs
    /\ config = load_config(disk, env)
    /\ out = [cmd |-> "start"]
    /\ lastset = [k \in ConfigKeys |-> << >>]
    /\ ncmd = 0

config_frame == << batch_vars, load_vars, file_vars, repl_vars, caller, opts, cpc, params, payload, cb,
                   cresult >>

\* `config set KEY VALUE`, for every value, answer to a confirmation prompt
\* and behaviour of the file system.
ConfigSet(key) ==
    /\ ncmd < MaxCommands
    /\ \E value \in SetValues(key), confirm \in BOOLEAN, save \in SaveOutcomes :
         LET r == config_set(key, value, confirm) IN
         /\ IF r.status = "updated"
            THEN /\ config' = dict_set(config, key, r.value)
                 /\ disk' = save_config(config', disk, save)
                 /\ lastset' = [lastset EXCEPT ![key] = << r.value >>]
            ELSE UNCHANGED << config, disk, lastset >>
         /\ out' = [cmd |-> "set", key |-> key, arg |-> value, status |-> r.status]
    /\ ncmd' = ncmd + 1
    /\ UNCHANGED << config_frame, env >>

\* `config get KEY`
ConfigGet(key) ==
    /\ ncmd < MaxCommands
    /\ out' = IF key \in DOMAIN config
              THEN [cmd |-> "get", key |-> key, status |-> "found", value |-> config[key]]
              ELSE [cmd |-> "get", key |-> key, status |-> "not_found"]
    /\ ncmd' = ncmd + 1
    /\ UNCHANGED << config_frame, config, disk, env, lastset >>

\* `config reset`, confirmed or not
ConfigReset ==
    /\ ncmd < MaxCommands
    /\ \E confirm \in BOOLEAN, save \in SaveOutcomes :
         IF confirm
         THEN /\ config' = reset_config(config)
              /\ disk' = save_config(config', disk, save)
              /\ lastset' = [k \in ConfigKeys |-> IF k \in valid_keys THEN << >> ELSE lastset[k]]
              /\ out' = [cmd |-> "reset", status |-> "reset"]
         ELSE /\ out' = [cmd |-> "reset", status |-> "aborted"]
              /\ UNCHANGED << config, disk, lastset >>
    /\ ncmd' = ncmd + 1
    /\ UNCHANGED << config_frame, env >>

\* The next command runs in a new process: cli.main builds CLIConfig().
NewProcess ==
    /\ out.cmd # "start"
    /\ config' = load_config(disk, env)
    /\ out' = [cmd |-> "start"]
    /\ UNCHANGED << config_frame, disk, env, lastset, ncmd >>

ConfigNext ==
    \/ \E key \in ConfigKeys : ConfigSet(key)
    \/ \E key \in ConfigKeys : ConfigGet(key)
    \/ ConfigReset
    \/ NewProcess

ConfigSpec == ConfigInit /\ [][ConfigNext]_vars

(***************************************************************************)
(* The sequential command `generate file`, from its loop on                *)
(***************************************************************************)
\* A loop whose file write is not guarded: the exception leaves the command.
write_error_caught_never(p) == FALSE

\* The try/except around the write of an output file catches every
\* Exception.
write_error_caught(p) == TRUE

\* The prompts are loaded and the counters are zero.
FileInit ==
    /\ BatchOff
    /\ opts = NoOptions
    /\ CallOff
    /\ LoadOff
    /\ ConfigOff
    /\ ReplOff
    /\ fcount \in 0 .. MaxPrompts
    /\ fidx = 0
    /\ successful = 0
    /\ failed = 0
    /\ flog = << >>
    /\ ffiles = {}
    /\ fpc = "loop"

\* One iteration of the loop, for the behaviour b of the backend and the
\* behaviour p of the write of output_{i:03d}.txt (None when nothing is
\* written).
ProcessPrompt(b) ==
    /\ fpc = "loop"
    /\ fidx < fcount
    /\ \E p \in Persist \cup {None} :
         LET result == generate_text(b) IN
         /\ (p = None) = ~Get(result, "success", FALSE)
         /\ flog' = Append(flog, [prompt |-> fidx + 1, resp |-> b, persist |-> p])
         /\ ffiles' = IF unit_creates_file(result, p) THEN ffiles \cup {fidx + 1} ELSE ffiles
         /\ IF Get(result, "success", FALSE) /\ p # "ok" /\ ~write_error_caught(p)
            THEN /\ fpc' = "aborted"
                 /\ UNCHANGED << fidx, successful, failed >>
            ELSE /\ fpc' = "loop"
                 /\ fidx' = fidx + 1
                 /\ successful' = (IF Get(result, "success", FALSE) /\ p = "ok"
                                   THEN successful + 1 ELSE successful)
                 /\ failed' = (IF Get(result, "success", FALSE) /\ p = "ok"
                               THEN failed ELSE failed + 1)
    /\ UNCHANGED << batch_vars, call_vars, load_vars, config_vars, repl_vars, fcount >>

\* The loop is over: the totals are echoed.
FileSummary ==
    /\ fpc = "loop"
    /\ fidx = fcount
    /\ fpc' = "done"
    /\ UNCHANGED << batch_vars, call_vars, load_vars, config_vars, repl_vars, fcount, fidx, successful,
                    failed, flog, ffiles >>

FileNext ==
    \/ \E b \in Transport : ProcessPrompt(b)
    \/ FileSummary

FileSpec == FileInit /\ [][FileNext]_vars

(***************************************************************************)
(* The interactive session `generate interactive`                          *)
(***************************************************************************)
\* Bound on the number of iterations of the session loop.
MaxInputs == 2

\* The lines typed at the prompt.
Inputs == {"quit", "EXIT", "help", "Stats", "hello"}

\* session_user_id = user_id or config.get('default_user_id', 'cli_user')
session_user_id(o, cfg) ==
    IF truthy_string(o.user_id) THEN o.user_id[1]
    ELSE Get(cfg, "default_user_id", "cli_user")

\* The exception that leaves click.prompt when the user presses Ctrl-C (or
\* the input ends) while it waits: click.prompt catches KeyboardInterrupt
\* and EOFError and raises click.Abort, a RuntimeError.
prompt_interrupted == "Abort"

\* The exception that leaves generate_text when the user presses Ctrl-C
\* during the request: its handlers catch Exception only.
generate_interrupted == "KeyboardInterrupt"

\* The except clauses of the loop: KeyboardInterrupt says goodbye and
\* breaks, any other Exception is echoed and the loop goes on.
loop_after(exc) == IF exc = "KeyboardInterrupt" THEN "ended" ELSE "prompt"

InteractiveInit ==
    /\ BatchOff
    /\ opts \in { NoOptions, [NoOptions EXCEPT !.user_id = << "alice" >>] }
    /\ CallIdle
    /\ config \in Configs
    /\ LoadOff
    /\ ConfigOff
    /\ FileOff
    /\ rpc = "prompt"
    /\ transcript = << >>

\* The entry of one iteration: the line typed (None when the prompt was
\* interrupted), where an interrupt came, what the backend did with the
\* request (None without a request), the user ids of the generate calls
\* made, what was echoed, and where the loop is afterwards.
Entry(line, interrupted, g, user_ids, shown, after) ==
    [input |-> line, interrupted |-> interrupted, resp |-> g, calls |-> user_ids,
     echoed |-> shown, after |-> after]

\* One iteration of the loop in which click.prompt returns a line.  g is
\* what the backend does with the request, or an interrupt during it.
ReadLine(line) ==
    /\ rpc = "prompt"
    /\ Len(transcript) < MaxInputs
    /\ \E g \in Transport \cup {[kind |-> "interrupt", status |-> 0, body |-> "empty"]} :
         LET sent_user == request_payload([user_id |-> session_user_id(opts, config)],
                                          config).user_id
             entry ==
               CASE lower(line) \in {"quit", "exit"} ->
                      Entry(line, "no", None, << >>, "goodbye", "ended")
                 [] lower(line) = "help" ->
                      Entry(line, "no", None, << >>, "commands", "prompt")
                 [] lower(line) = "stats" ->
                      Entry(line, "no", None, << >>, "stats", "prompt")
                 [] OTHER ->
                      IF g.kind = "interrupt"
                      THEN Entry(line, "in_generate", g, << sent_user >>, "goodbye",
                                 loop_after(generate_interrupted))
                      ELSE Entry(line, "no", g, << sent_user >>,
                                 IF Get(generate_text(g), "success", FALSE)
                                 THEN "bot" ELSE "error",
                                 "prompt")
         IN /\ transcript' = Append(transcript, entry)
            /\ rpc' = entry.after
    /\ UNCHANGED << batch_vars, call_vars, load_vars, config_vars, file_vars >>

\* One iteration of the loop in which the user presses Ctrl-C at the prompt.
PromptInterrupted ==
    /\ rpc = "prompt"
    /\ Len(transcript) < MaxInputs
    /\ transcript' = Append(transcript,
                            Entry(None, "at_prompt", None, << >>,
                                  IF loop_after(prompt_interrupted) = "ended"
                                  THEN "goodbye" ELSE "error",
                                  loop_after(prompt_interrupted)))
    /\ rpc' = loop_after(prompt_interrupted)
    /\ UNCHANGED << batch_vars, call_vars, load_vars, config_vars, file_vars >>

InteractiveNext ==
    \/ \E line \in Inputs : ReadLine(line)
    \/ PromptInterrupted

InteractiveSpec == InteractiveInit /\ [][InteractiveNext]_vars

(***************************************************************************)
(* Properties                                                              *)
(***************************************************************************)
SummaryWritten == DOMAIN summary # {}

\* process_prompts_concurrent has returned its list.
Returned == pc \in {"summarize", "done"}

\* The unit of work of prompt k is over, by a return or by an exception.
UnitOver(k) == fstate[k] \in {"finished", "raised"}

\* The transport result the unit of work of prompt k received.
ResultOf(k) == generate_text(resp[k])

\* rs has one record per prompt, the one of prompt index k-1 at position k.
InInputOrder(rs) ==
    /\ Len(rs) = Len(prompts)
    /\ \A k \in 1 .. Len(rs) : Get(rs[k], "index", -1) = k - 1

\* C1: the list process_prompts_concurrent returns, which is the list saved
\* under 'results' in the summary, has one outcome per prompt and its i-th
\* element has index i, whatever the worker count and the completion order.
C1_ReturnedInInputOrder ==
    /\ Returned => InInputOrder(results)
    /\ SummaryWritten => InInputOrder(summary.results)

\* Two workers, the second prompt collected first, the summary written.
C1_Witness ==
    /\ pc = "done"
    /\ max_workers = 2
    /\ Len(prompts) = 2
    /\ progress[1].prompt = 2
    /\ SummaryWritten

\* C2: the outcomes collected so far have distinct prompt indices, each of a
\* submitted prompt, and once every unit is over and the collection loop has
\* been left there is one collected outcome per submitted prompt.
C2_NoOutcomeLostOrDuplicated ==
    /\ \A a, b \in 1 .. Len(results) :
          a # b => Get(results[a], "index", -1) # Get(results[b], "index", -1)
    /\ \A a \in 1 .. Len(results) :
          /\ Get(results[a], "index", -1) \in Indices
          /\ fstate[Get(results[a], "index", -1)] # "unsubmitted"
    /\ Len(results) = completed
    /\ (pc \in {"summarize", "done", "aborted"} /\ \A k \in Indices : UnitOver(k))
          => Len(results) = i

\* C3: in a written summary successful + failed = total_prompts and
\* content_filtered <= failed.
C3_SummaryCountsReconcile ==
    SummaryWritten =>
        /\ summary.successful + summary.failed = summary.total_prompts
        /\ summary.content_filtered <= summary.failed
        /\ summary.total_prompts = input.count

\* A summary that counts a success, a filtered prompt or failure among them.
C3_Witness ==
    /\ SummaryWritten
    /\ summary.successful = 1
    /\ summary.content_filtered = 1
    /\ summary.failed = 1

\* What a strictly sequential run returns: the outcome of each prompt in
\* input order, each determined by the response to its own request.
SequentialOutcomes ==
    [k \in 1 .. Len(prompts) |-> process_single_prompt(k - 1, ResultOf(k - 1))]

\* C4: for fixed per-prompt responses the list returned is the one the
\* sequential run (max_workers = 1) returns, for every worker count and
\* every interleaving; and whether a list is returned at all does not depend
\* on them either.
C4_SameOutcomesAsSequential ==
    /\ Returned =>
          /\ \A k \in Indices : fstate[k] = "finished"
          /\ results = SequentialOutcomes
    /\ (pc = "aborted" /\ "starting" \in echoed) =>
          \E k \in Indices : fstate[k] = "raised"

\* Two workers, completion in reverse order, a failure before a success.
C4_Witness ==
    /\ pc = "summarize"
    /\ max_workers = 2
    /\ Len(results) = 2
    /\ progress[1].prompt = 2
    /\ ~results[1].success
    /\ results[2].success

\* The 'reason' in the structured details of a transport result.
ReasonOf(result) == Get(Get(result, "details", EmptyDict), "reason", None)

\* The outcome of prompt k is classified as the variant `variant`.
IsVariant(k, variant) ==
    CASE variant = "Success" -> Get(fvalue[k], "success", FALSE)
      [] variant = "ContentFiltered" ->
           ~Get(fvalue[k], "success", TRUE) /\ Get(fvalue[k], "content_filtered", FALSE)
      [] OTHER ->
           ~Get(fvalue[k], "success", TRUE) /\ ~Get(fvalue[k], "content_filtered", TRUE)

\* The variant expected for a transport result when `reason` is the reason
\* that marks a content policy violation.
ExpectedVariant(result, reason) ==
    IF result.success THEN "Success"
    ELSE IF result.status_code = 400 /\ ReasonOf(result) = reason
         THEN "ContentFiltered"
         ELSE "Failure"

C6_WriteFailureIsRecorded ==
    /\ \A k \in Indices :
          (UnitOver(k) /\ persist[k] \in {"open_fails", "write_fails"}) =>
              /\ fstate[k] = "finished"
              /\ ~Get(fvalue[k], "success", TRUE)
              /\ "error" \in DOMAIN fvalue[k]
    /\ pc = "aborted" => ~("starting" \in echoed)

\* The request of prompt k timed out.
TimedOut(k) == UnitOver(k) /\ resp[k].kind = "timeout"

\* C7: when one prompt's request times out, its outcome is a Failure with
\* the timeout error, every other prompt has the outcome its own response
\* determines, and the batch reaches its summary.
C7_TimeoutIsIsolated ==
    (\E t \in Indices : TimedOut(t)) =>
        /\ \A k \in Indices :
              UnitOver(k) =>
                  /\ fstate[k] = "finished"
                  /\ fvalue[k] = process_single_prompt(k, ResultOf(k))
                  /\ TimedOut(k) =>
                        /\ IsVariant(k, "Failure")
                        /\ fvalue[k].error = "Request timeout - API took too long to respond"
        /\ pc # "aborted"
        /\ (pc = "done") => SummaryWritten

\* C8: once pre-flight validation has succeeded, the run ends only with the
\* summary written.
C8_SummaryAlwaysWritten ==
    ("starting" \in echoed /\ pc \in {"done", "aborted"}) =>
        (pc = "done" /\ SummaryWritten /\ error = None)

\* No request has been posted and no unit of work exists.
NothingScheduled ==
    /\ \A k \in Indices : fstate[k] = "unsubmitted" /\ calls[k] = 0
    /\ queue = << >>
    /\ i = 0
    /\ results = << >>

\* C9: with an input that yields zero prompts the command reports that no
\* prompts were found and returns without raising; nothing is scheduled, no
\* request is posted, no directory or file is made.
C9_EmptyInputReturns ==
    (input.kind = "ok" /\ input.count = 0) =>
        /\ NothingScheduled
        /\ files = {} /\ ~SummaryWritten
        /\ error = None
        /\ pc \in {"load", "returned"}
        /\ pc = "returned" => {"loaded", "no_prompts"} = echoed

\* The command has returned on an empty input.
C9_Witness ==
    /\ input.kind = "ok" /\ input.count = 0
    /\ pc = "returned"
    /\ "no_prompts" \in echoed

\* C10: when the input is missing or unparseable, or the output directory
\* cannot be created, the exception leaves process() before anything is
\* scheduled: no request, no result file, no summary.
C10_FatalPreflightAborts ==
    (input.kind # "ok" \/ (input.count > 0 /\ ~outdir_ok)) =>
        /\ NothingScheduled
        /\ files = {} /\ ~SummaryWritten
        /\ pc \in {"load", "mkdir", "aborted"}
        /\ (input.kind # "ok" /\ pc # "load") => (pc = "aborted" /\ error # None)
        /\ pc = "aborted" => (error # None /\ ~("starting" \in echoed))

\* The run was aborted because the output directory could not be created,
\* with prompts loaded.
C10_Witness ==
    /\ pc = "aborted"
    /\ input.count = 2 /\ Len(prompts) = 2
    /\ ~outdir_ok
    /\ error = "OSError"

\* C11: at every moment at most max_workers units of work are executing
\* (their request in flight); with one worker a unit starts only after the
\* units before it are over.
C11_ConcurrencyCap ==
    /\ Cardinality(Running) <= max_workers
    /\ max_workers = 1 =>
          \A k \in Indices :
              fstate[k] \in {"running", "finished", "raised"} =>
                  \A j \in 0 .. (k - 1) : UnitOver(j)

\* One worker, busy with the first prompt while the second waits in the queue.
C11_Witness ==
    /\ max_workers = 1
    /\ Running = {0}
    /\ queue = << 1 >>

\* C12: prompts are submitted in input order; with delay > 0 the main thread
\* sleeps once after each submission but the last (n - 1 sleeps for n
\* prompts), whatever the workers do; with delay = 0 it never sleeps.
C12_PacedSubmission ==
    /\ \A k \in Indices : (fstate[k] # "unsubmitted") = (k < i)
    /\ \A a, b \in 1 .. Len(queue) : a < b => queue[a] < queue[b]
    /\ delay = 0 => (sleeps = 0 /\ pc # "sleep")
    /\ (delay > 0 /\ pc = "sleep") => (sleeps = i - 1 /\ i < Len(prompts))
    /\ (delay > 0 /\ pc = "submit") =>
          sleeps = (IF i < Len(prompts) THEN i ELSE Len(prompts) - 1)
    /\ (delay > 0 /\ pc \in {"collect", "summarize", "done"}) =>
          sleeps = Len(prompts) - 1

\* The main thread sleeps although the only unit submitted so far is over
\* and every worker is free.
C12_Witness ==
    /\ pc = "sleep"
    /\ i = 1
    /\ fstate[0] = "finished"
    /\ Running = {} /\ queue = << >>

\* The outcome of prompt k is a success.
OutcomeIsSuccess(k) == fstate[k] = "finished" /\ Get(fvalue[k], "success", FALSE)

\* The main thread has left process().
RunOver == pc \in {"done", "aborted", "returned"}

\* C13: after a run the file result_{k+1} exists exactly when the outcome of
\* prompt k is a success.
C13_FileIffSuccess ==
    (RunOver /\ \A k \in Indices : fstate[k] \notin {"pending", "running"}) =>
        \A k \in Indices : (output_file(k) \in files) = OutcomeIsSuccess(k)

\* The state in which the list is returned and the summary computed.
C14_SummaryInv ==
    /\ Returned =>
          /\ \A k \in Indices : UnitOver(k)
          /\ Running = {} /\ queue = << >>
          /\ yielded = Indices
          /\ Len(results) = Len(prompts)
    /\ SummaryWritten = (pc = "done")
    /\ SummaryWritten => summary = make_summary(prompts, results)

\* C14: the summary is computed and written once, after every submitted unit
\* of work is over and its outcome collected; once written it does not
\* change.
C14_SummaryOnceAfterAll ==
    /\ []C14_SummaryInv
    /\ [][SummaryWritten => summary' = summary]_vars

\* The summary is about to be computed with both outcomes collected in
\* reverse order of submission.
C14_Witness ==
    /\ pc = "summarize"
    /\ Len(prompts) = 2
    /\ yielded = {0, 1}
    /\ progress[1].prompt = 2
    /\ ~SummaryWritten

\* The units of work that were submitted.
Submitted == { k \in Indices : fstate[k] # "unsubmitted" }

\* C15: after an interrupt in mid-batch the submitted units finish, the
\* remaining prompts are not submitted, and a summary covering exactly the
\* completed units is written.
C15_InterruptPartialSummary ==
    (error = "KeyboardInterrupt" /\ pc = "aborted") =>
        /\ \A k \in Submitted : UnitOver(k)
        /\ Submitted = 0 .. (i - 1)
        /\ SummaryWritten
        /\ { Get(summary.results[a], "index", -1) : a \in 1 .. Len(summary.results) }
              = { k \in Submitted : fstate[k] = "finished" }

\* C16: a prompt causes at most one generate_text call and a generate_text
\* call at most one HTTP POST, whatever the failure; in a run that reaches
\* its summary every prompt has caused exactly one of each.
C16_AtMostOneAttempt ==
    /\ \A k \in Indices :
          /\ calls[k] <= 1
          /\ posts[k] <= calls[k]
          /\ calls[k] = (IF fstate[k] \in {"unsubmitted", "pending"} THEN 0 ELSE 1)
          /\ UnitOver(k) => posts[k] = 1
    /\ SummaryWritten => \A k \in Indices : calls[k] = 1 /\ posts[k] = 1

\* The summary is written after one request timed out and one failed to
\* connect; neither was repeated.
C16_Witness ==
    /\ SummaryWritten
    /\ Len(prompts) = 2
    /\ resp[0].kind = "timeout" /\ resp[1].kind = "connection_error"
    /\ posts[0] = 1 /\ posts[1] = 1

\* generate_text has returned to its caller.
CallReturned == cpc = "returned"

\* C17: generate_text never raises; for every transport behaviour it
\* returns a dict with a boolean 'success' and a 'status_code', and with an
\* 'error' when it is unsuccessful.
C17_NeverRaises ==
    /\ cpc # "raised"
    /\ CallReturned =>
          /\ {"success", "status_code"} \subseteq DOMAIN cresult
          /\ cresult.success \in BOOLEAN
          /\ cresult.status_code \in 100 .. 599
          /\ ~cresult.success => "error" \in DOMAIN cresult

\* An exception that is neither a timeout nor a connection error was raised
\* by requests.post and came back as a failure dict.
C17_Witness ==
    /\ CallReturned
    /\ cb.kind = "exception"
    /\ ~cresult.success
    /\ cresult.status_code = 500

\* The body cannot be decoded where generate_text decodes it: always for
\* status 200 and 400, for another status when the body is not empty.
Undecodable(b) ==
    /\ b.kind = "response"
    /\ \/ b.body = "invalid"
       \/ b.body = "empty" /\ b.status \in {200, 400}

\* The failure class of a transport behaviour.
FailureClass(b) ==
    CASE b.kind = "timeout" -> "timeout"
      [] b.kind = "connection_error" -> "connection"
      [] b.kind = "exception" -> "unexpected"
      [] b.kind = "response" /\ Undecodable(b) -> "malformed"
      [] b.kind = "response" /\ ~Undecodable(b) /\ b.status = 200 -> "success"
      [] b.kind = "response" /\ ~Undecodable(b) /\ b.status # 200 /\ b.body = "list" ->
           "unexpected"
      [] b.kind = "response" /\ ~Undecodable(b) /\ b.body # "list"
            /\ b.status \in 400 .. 499 -> "client"
      [] OTHER -> "server"

FiveClasses == {"timeout", "connection", "malformed", "client", "server"}

\* The JSON object the backend sent, the empty dict for an empty body.
BackendBody(b) == IF b.body = "empty" THEN EmptyDict ELSE Json(b.body)

\* The result carries the backend's status and the backend's error.
CarriesStatusAndError(b, r) ==
    /\ r.status_code = b.status
    /\ "error" \in DOMAIN BackendBody(b) => r.error = BackendBody(b).error

\* The result carries the backend's details and message.
CarriesDetailsAndMessage(b, r) ==
    /\ {"details", "message"} \subseteq DOMAIN r
    /\ "details" \in DOMAIN BackendBody(b) => r.details = BackendBody(b).details
    /\ "message" \in DOMAIN BackendBody(b) => r.message = BackendBody(b).message

\* The failure record r of behaviour b is the one of its class, where the
\* statuses in `detailed` are those reported with details and message.
RecordOfClass(b, r, detailed) ==
    CASE FailureClass(b) = "timeout" ->
           r.status_code = 408
           /\ r.error = "Request timeout - API took too long to respond"
      [] FailureClass(b) = "connection" ->
           r.status_code = 503 /\ r.error = "Connection error - Could not reach API"
      [] FailureClass(b) = "malformed" ->
           r.status_code = 500 /\ r.error = "Invalid JSON response"
      [] FailureClass(b) = "client" ->
           /\ CarriesStatusAndError(b, r)
           /\ IF b.status \in detailed
              THEN CarriesDetailsAndMessage(b, r)
              ELSE DOMAIN r = {"success", "error", "status_code"}
      [] FailureClass(b) = "server" -> CarriesStatusAndError(b, r)
      [] OTHER -> TRUE

\* No behaviour of another of the five classes yields the record r.
ClassesDistinct(b, r) ==
    FailureClass(b) \in FiveClasses =>
        \A other \in Transport :
            (FailureClass(other) \in FiveClasses /\ FailureClass(other) # FailureClass(b))
                => generate_text(other) # r

\* C18 as stated: every client error in the 4xx range is reported with the
\* backend's status, error, details and message.
C18_AsStated ==
    CallReturned =>
        /\ RecordOfClass(cb, cresult, 400 .. 499)
        /\ ClassesDistinct(cb, cresult)

\* C18, amended: only status 400 is reported with details and message; any
\* other 4xx status is reported like a server error, with the backend's
\* status and error only.
C18_FailureClasses ==
    CallReturned =>
        /\ RecordOfClass(cb, cresult, {400})
        /\ ClassesDistinct(cb, cresult)

\* A 404 whose body has details and a message came back without them.
C18_Witness ==
    /\ CallReturned
    /\ cb.status = 404
    /\ "details" \in DOMAIN BackendBody(cb)
    /\ cresult.status_code = 404
    /\ "details" \notin DOMAIN cresult

\* C19: generate_text returns success exactly when the backend answers with
\* the success status, 200, and a decodable body; then 'data' is the decoded
\* body and 'status_code' the backend's status.
C19_SuccessIffOkAndDecodable ==
    CallReturned =>
        /\ cresult.success =
              (cb.kind = "response" /\ cb.status = 200 /\ cb.body \notin {"invalid", "empty"})
        /\ cresult.success =>
              /\ cresult.data = Json(cb.body)
              /\ cresult.data.generated_text = "generated"
              /\ cresult.status_code = cb.status

\* A success, with the generated text and the metadata of the body.
C19_Witness ==
    /\ CallReturned
    /\ cresult.success
    /\ cb.status = 200
    /\ DOMAIN cresult.data = {"generated_text", "metadata"}

\* An option is given on the command line.
given(option) == option # << >>

\* C20: the payload carries each of max_tokens, temperature and user_id as
\* given by the caller whenever it is given, and the configured default
\* only when it is not given.
C20_OverridesReachPayload ==
    cpc \in {"posted", "returned"} =>
        /\ payload.max_tokens = (IF given(opts.max_tokens) THEN opts.max_tokens[1]
                                 ELSE config.default_max_tokens)
        /\ payload.temperature = (IF given(opts.temperature) THEN opts.temperature[1]
                                  ELSE config.default_temperature)
        /\ payload.user_id = (IF given(opts.user_id) THEN opts.user_id[1]
                              ELSE config.default_user_id)

\* The payload every unit of this run posts: built from the options of the
\* run and the configuration the run started with.
RunPayload == request_payload(batch_params(opts), DefaultConfig)

\* Every call that was made posted RunPayload, and every outcome is the one
\* its own response determines.
C21_CallInv ==
    \A k \in Indices :
        /\ fstate[k] \in {"running", "finished", "raised"} => sent[k] = RunPayload
        /\ fstate[k] = "finished" =>
              fvalue[k] = process_single_prompt(k, generate_text(resp[k]))

\* C21: no step of a run, a returning generate call included, changes the
\* configuration of the shared client or a dispatch tunable (max_workers,
\* delay, the generation parameters); hence under every interleaving each
\* call posts the payload of its own parameters and each outcome depends on
\* the response to its own request only.
C21_CallsIndependent ==
    /\ []C21_CallInv
    /\ [][/\ config' = config
          /\ opts' = opts
          /\ max_workers' = max_workers
          /\ delay' = delay]_vars

\* The second call has returned while the first, started before it with the
\* same overriding parameters, is still in flight.
C21_Witness ==
    /\ Len(prompts) = 2
    /\ fstate[0] = "running" /\ fstate[1] = "finished"
    /\ given(opts.max_tokens)
    /\ sent[0] = sent[1]
    /\ sent[1].max_tokens = 4000
    /\ config = DefaultConfig

\* C22: a unit of work that has finished is reported by the main thread
\* without waiting for the submission of the other units: the main thread
\* is never in the pacing sleep between two submissions while a finished
\* unit has no progress line yet.
C22_ProgressWithoutWaiting ==
    \A k \in Indices :
        (fstate[k] = "finished" /\ k \notin yielded) => pc # "sleep"

\* The outcome variants the record r belongs to.
VariantsOf(r) ==
    { v \in {"Success", "Failure", "ContentFiltered"} :
        CASE v = "Success" -> Get(r, "success", FALSE)
          [] v = "ContentFiltered" ->
               ~Get(r, "success", TRUE) /\ Get(r, "content_filtered", FALSE)
          [] OTHER ->
               ~Get(r, "success", TRUE) /\ ~Get(r, "content_filtered", TRUE) }

\* The record r is a complete record of exactly one variant.
WellFormedOutcome(r) ==
    /\ {"success", "index"} \subseteq DOMAIN r
    /\ r.success \in BOOLEAN
    /\ Cardinality(VariantsOf(r)) = 1
    /\ r.success =>
          /\ "output_file" \in DOMAIN r /\ r.output_file \in files
          /\ ~Get(r, "content_filtered", FALSE)
          /\ "error" \notin DOMAIN r
    /\ ~r.success =>
          /\ "error" \in DOMAIN r
          /\ "content_filtered" \in DOMAIN r /\ r.content_filtered \in BOOLEAN
          /\ "output_file" \notin DOMAIN r
    /\ Get(r, "content_filtered", FALSE) => ~r.success

\* C26: every outcome a unit of work returns, and every outcome collected,
\* is exactly one of Success, Failure and ContentFiltered and is complete: a
\* success has its output file and no content_filtered flag set, a
\* non-success has an error and a boolean content_filtered, and
\* content_filtered implies non-success.
C26_OutcomeVariants ==
    /\ \A k \in Indices : fstate[k] = "finished" => WellFormedOutcome(fvalue[k])
    /\ \A a \in 1 .. Len(results) : WellFormedOutcome(results[a])

\* One run has produced a Success with its file, and a ContentFiltered.
C26_Witness ==
    /\ Len(results) = 2
    /\ VariantsOf(results[1]) = {"Success"}
    /\ results[1].output_file \in files
    /\ VariantsOf(results[2]) = {"ContentFiltered"}

\* process_prompts_concurrent has been entered and left.
CollectionLeft == "starting" \in echoed /\ pc \in {"summarize", "done", "aborted"}

\* C28: the progress lines are numbered 1, 2, ... in the order they are
\* emitted, none exceeds the number of prompts, each line shows the prompt
\* number (index + 1) of the outcome just collected, no prompt has two
\* lines, and when the collection is left every prompt has its line.
C28_ProgressLines ==
    /\ Len(progress) = completed
    /\ completed <= Len(prompts)
    /\ \A a \in 1 .. Len(progress) :
          /\ progress[a].completed = a
          /\ progress[a].total = Len(prompts)
          /\ pc = "collect" => progress[a].prompt = results[a].index + 1
    /\ \A a, b \in 1 .. Len(progress) :
          a # b => progress[a].prompt # progress[b].prompt
    /\ { progress[a].prompt : a \in 1 .. Len(progress) }
          = { results[a].index + 1 : a \in 1 .. Len(results) }
    /\ CollectionLeft => Len(progress) = Len(prompts)

\* The positions of the lines of ls that are not empty once stripped of
\* their surrounding whitespace.
NonEmptyPositions(ls) ==
    { j \in 1 .. Len(ls) : \E c \in 1 .. Len(ls[j]) : ls[j][c] # " " }

\* The a-th smallest element of the set of positions P.
NthOf(P, a) == CHOOSE j \in P : Cardinality({ m \in P : m <= j }) = a

\* The line t is the line l without its leading and trailing whitespace.
IsStripped(l, t) ==
    /\ t # << >> => (t[1] # " " /\ t[Len(t)] # " ")
    /\ \E lead, trail \in 0 .. Len(l) :
          /\ lead + Len(t) + trail = Len(l)
          /\ \A c \in 1 .. lead : l[c] = " "
          /\ \A c \in 1 .. trail : l[Len(l) + 1 - c] = " "
          /\ \A c \in 1 .. Len(t) : t[c] = l[lead + c]

\* C23: load_prompts raises for a missing file and for a JSON document
\* that is neither a list nor an object with a 'prompts' key; otherwise it
\* returns, in source order, the list itself or the list under 'prompts'
\* for a JSON source, and for a plain source one stripped line for every
\* line that is not empty (once stripped), none dropped, duplicated or
\* reordered.
C23_LoadPrompts ==
    loaded # EmptyDict =>
        CASE ~source.exists -> loaded = [raises |-> "FileNotFoundError"]
          [] source.exists /\ source.suffix \in {".json", ".JSON"} ->
               CASE source.doc.type = "list" -> loaded = [returns |-> source.doc.items]
                 [] source.doc.type = "dict" /\ "prompts" \in DOMAIN source.doc ->
                      loaded = [returns |-> source.doc.prompts]
                 [] source.doc.type = "undecodable" -> "raises" \in DOMAIN loaded
                 [] OTHER -> loaded = [raises |-> "ValueError"]
          [] OTHER ->
               /\ DOMAIN loaded = {"returns"}
               /\ Len(loaded.returns) = Cardinality(NonEmptyPositions(source.lines))
               /\ \A a \in 1 .. Len(loaded.returns) :
                     IsStripped(source.lines[NthOf(NonEmptyPositions(source.lines), a)],
                                loaded.returns[a])

\* A text file with a padded line and a blank line between two prompts has
\* been loaded.
C23_Witness ==
    /\ source.exists /\ source.suffix = ".txt"
    /\ source.lines = << << "a", " " >>, << " " >>, << " ", "b" >> >>
    /\ loaded = [returns |-> << << "a" >>, << "b" >> >>]

\* C24: a `config get KEY` that follows a `config set KEY VALUE` which
\* reported success (with sets and gets of other keys in between) returns
\* the converted VALUE; and a set of one key leaves the value of every other
\* key unchanged.
C24_SetThenGet ==
    /\ [](out.cmd = "get" /\ lastset[out.key] # << >>
             => out.status = "found" /\ out.value = lastset[out.key][1])
    /\ [][(ncmd' = ncmd + 1 /\ out'.cmd = "set")
             => \A k \in DOMAIN config \ {out'.key} :
                   k \in DOMAIN config' /\ config'[k] = config[k]]_vars

\* C25: after a confirmed `config reset` each of the seven known keys has
\* its default value, and the file holds the reset configuration.
C25_ResetRestoresDefaults ==
    (out.cmd = "reset" /\ out.status = "reset") =>
        /\ \A k \in valid_keys : config[k] = DefaultConfig[k]
        /\ disk.exists /\ disk.content = config

\* The value v is inside the valid range of the key.
InValidRange(key, v) ==
    CASE key = "default_max_tokens" -> v \in 1 .. 4000
      [] key = "timeout" -> v \in 1 .. 300
      [] key = "default_temperature" -> v \in 0 .. 10
      [] key = "output_format" -> v \in {"text", "json"}
      [] key = "log_level" -> v \in {"DEBUG", "INFO", "WARNING", "ERROR"}
      [] key = "api_endpoint" -> startswith_https(v) \/ v = DefaultConfig.api_endpoint
      [] OTHER -> TRUE

\* The command-line value fails the validation of the key.
FailsValidation(key, value) ==
    CASE key \in {"default_max_tokens", "timeout"} ->
           parse_int(value) = << >> \/ ~InValidRange(key, parse_int(value)[1])
      [] key = "default_temperature" ->
           parse_float(value) = << >> \/ ~InValidRange(key, parse_float(value)[1])
      [] key = "log_level" -> ~InValidRange(key, upper(value))
      [] OTHER -> ~InValidRange(key, value)

\* C27: a `config set` whose value fails validation changes neither the
\* configuration in memory nor the file; and in every state each validated
\* key holds a value inside its valid range.
C27_InvalidSetRejected ==
    /\ [](\A k \in valid_keys : InValidRange(k, config[k]))
    /\ [][(ncmd' = ncmd + 1 /\ out'.cmd = "set" /\ FailsValidation(out'.key, out'.arg))
             => (config' = config /\ disk' = disk)]_vars

\* The generation of the logged iteration succeeded and its file was
\* written.
Saved(entry) ==
    /\ entry.resp.kind = "response" /\ entry.resp.status = 200
    /\ entry.resp.body = "text"
    /\ entry.persist = "ok"

\* C29: `generate file` makes one generate call per prompt, in file order;
\* a prompt whose generation fails or whose output file cannot be written is
\* counted as failed and the loop goes on; successful + failed is the number
\* of prompts processed, and the number of prompts at the end.
C29_SequentialFile ==
    /\ fpc \in {"off", "loop", "done"}
    /\ Len(flog) = fidx /\ fidx <= fcount
    /\ \A a \in 1 .. Len(flog) : flog[a].prompt = a
    /\ successful = Cardinality({ a \in 1 .. Len(flog) : Saved(flog[a]) })
    /\ failed = Cardinality({ a \in 1 .. Len(flog) : ~Saved(flog[a]) })
    /\ successful + failed = fidx
    /\ fpc = "done" => successful + failed = fcount
    /\ \A a \in 1 .. Len(flog) : Saved(flog[a]) => a \in ffiles

\* The first output file could not be written, the second prompt was
\* processed and saved, and the totals were echoed.
C29_Witness ==
    /\ fpc = "done" /\ fcount = 2
    /\ flog[1].persist = "write_fails"
    /\ Saved(flog[2])
    /\ successful = 1 /\ failed = 1

\* C30: in every iteration of the interactive session, 'quit' or 'exit' in
\* any case, or a keyboard interrupt, ends the session; 'help' and 'stats'
\* cause no generate call; any other line causes one generate call with the
\* user id of the session; a failed generation is reported; and unless it
\* ended so, the session is at its prompt again.
C30_InteractiveSession ==
    /\ \A a \in 1 .. Len(transcript) :
          LET e == transcript[a] IN
          /\ e.interrupted # "no" => e.after = "ended"
          /\ e.interrupted # "at_prompt" =>
                /\ lower(e.input) \in {"quit", "exit"} => (e.after = "ended" /\ e.calls = << >>)
                /\ lower(e.input) \in {"help", "stats"} =>
                      (e.after = "prompt" /\ e.calls = << >>)
                /\ lower(e.input) \notin {"quit", "exit", "help", "stats"} =>
                      /\ e.calls = << session_user_id(opts, config) >>
                      /\ e.interrupted = "no" =>
                            /\ e.after = "prompt"
                            /\ ~Get(generate_text(e.resp), "success", FALSE)
                                  => e.echoed = "error"
          /\ e.after = "ended" => a = Len(transcript)
    /\ (rpc = "ended") =
          (transcript # << >> /\ transcript[Len(transcript)].after = "ended")

====
